---- MODULE Spec2Model ----
(***************************************************************************)
(* Model of app/static/dashboard.js: the status poller and renderer of the *)
(* trading-bot dashboard.  Times are milliseconds since the page loaded;   *)
(* dollar amounts are integer cents, prices are thousandths of a dollar,   *)
(* ratios and rates are hundredths / thousandths as noted.                 *)
(***************************************************************************)
EXTENDS Integers, Sequences, FiniteSets, TLC

VARIABLES
    dom,                 \* the elements the script reads and writes, by role
    chart,               \* capitalChart.data: labels and the single data series
    activeElement,       \* document.activeElement: "slider" or "body"
    lastPriceUpdateISO,  \* module-level cache (line 243)
    priceThreadAlive,    \* module-level cache (line 244)
    now,                 \* Date.now(), ms since page load
    nextBadgeTick,       \* due time of setInterval(updatePriceBadge, 1000)
    nextPoll,            \* due time of setInterval(fetchStatus, 5000)
    hideTimers,          \* due times of the pending setTimeout(hide, 2000), one per
                         \* timeout, in the order they were set
    inflight,            \* GET /api/status requests awaiting their response
    posts,               \* POST requests awaiting their response
    console,             \* number of console.error calls so far
    clicks,              \* button handlers invoked by the user so far
    srvStatus,           \* backend: bot status served by /api/status
    srvScan,             \* backend: scan counter served by /api/status
    lastEvent            \* the handler that ran last and how it ended: logged is
                         \* a console.error call, escaped an exception that left
                         \* the handler (an unhandled rejection)

vars == <<dom, chart, activeElement, lastPriceUpdateISO, priceThreadAlive, now,
          nextBadgeTick, nextPoll, hideTimers, inflight, posts, console, clicks, srvStatus, srvScan, lastEvent>>

(***************************************************************************)
(* Program constants                                                       *)
(***************************************************************************)
PollInterval == 5000
BadgeInterval == 1000
SavedDelay == 2000
FreshLimit == 60
DeadLimit == 120

(***************************************************************************)
(* Bounds of the model                                                     *)
(***************************************************************************)
MaxNow == 5000
MaxNowFair == 10000
MaxClicks == 1
MaxSaves == 2
MaxScan == 1

(***************************************************************************)
(* Small helpers of the script                                             *)
(***************************************************************************)
Has(obj, f) == f \in DOMAIN obj

Abs(n) == IF n < 0 THEN -n ELSE n

\* Number.prototype.toFixed(2) of an amount held in hundredths
ToFixed2(c) == [neg |-> c < 0, int |-> Abs(c) \div 100, frac |-> Abs(c) % 100]

\* (x * 100).toFixed(1) of a price fraction held in thousandths
CentsFixed1(pm) == [neg |-> pm < 0, int |-> Abs(pm) \div 10, frac |-> Abs(pm) % 10]

pnlColor(val) == IF val >= 0 THEN "text-emerald-400" ELSE "text-red-400"

pnlSign(val) == IF val >= 0 THEN "+" ELSE ""

escChar(ch) ==
    IF ch = "&" THEN "&amp;"
    ELSE IF ch = "<" THEN "&lt;"
    ELSE IF ch = ">" THEN "&gt;"
    ELSE ch

\* a string is a sequence of characters
esc(str) == [i \in 1..Len(str) |-> escChar(str[i])]

\* an ISO timestamp is [valid |-> BOOLEAN, ms |-> Int]; new Date(iso).getTime()
\* of an unparseable string is NaN
GetTime(iso) == IF iso.valid THEN [nan |-> FALSE, n |-> iso.ms] ELSE [nan |-> TRUE, n |-> 0]

\* obj[f] is truthy: present and not the empty string (a string is a sequence
\* of characters; counts and flags are tested where they are used)
Truthy(obj, f) == Has(obj, f) /\ obj[f] # <<>>

formatTime(obj, f) ==
    IF ~Truthy(obj, f) THEN [kind |-> "-"]
    ELSE IF ~obj[f].valid THEN [kind |-> "Invalid Date"]
    ELSE [kind |-> "hh:mm", h |-> (obj[f].ms \div 3600000) % 24,
                            m |-> (obj[f].ms \div 60000) % 60]

\* seconds truncated instead of rounded
RoundSeconds_Truncates(ms) == ms \div 1000

\* Math.round(x / 1000): floor(x / 1000 + 0.5)
RoundSeconds(ms) == (ms + 500) \div 1000

\* the rates k/1000 at a half percent whose double product (k/1000) * 100
\* falls below the half: 0.285 * 100 is 28.499999999999996
BelowHalf == {145, 285, 565, 575}

\* (rate * 100).toFixed(0) of a rate held in thousandths, 0 to 1000: the
\* product is rounded to the nearest whole number, halves up
PctFixed0(rate) == IF rate \in BelowHalf THEN rate \div 10 ELSE (rate + 5) \div 10

winRateBar(rate) ==
    [pct |-> PctFixed0(rate),
     color |-> IF rate >= 700 THEN "bg-emerald-500"
               ELSE IF rate >= 500 THEN "bg-yellow-500" ELSE "bg-red-500"]

\* run the next statement unless an exception is already propagating
Then(w, stmt(_)) == IF w.threw THEN w ELSE stmt(w)

Throw(w) == [w EXCEPT !.threw = TRUE]

Set(w, el, val) == [w EXCEPT !.dom[el] = val]

(***************************************************************************)
(* updatePriceBadge (lines 246-275)                                        *)
(***************************************************************************)
SecAgo(iso, t) ==
    LET g == GetTime(iso)
    IN  IF g.nan THEN g ELSE [nan |-> FALSE, n |-> RoundSeconds(t - g.n)]

Less(sec, limit) == ~sec.nan /\ sec.n < limit

updatePriceBadge(d, lpu, alive, t) ==
    IF lpu.kind = "null"
    THEN [d EXCEPT !.priceBadgeClass = "bg-gray-700 text-gray-400",
                   !.priceDotClass = "bg-gray-500",
                   !.priceTxt = [kind |-> "sin datos"]]
    ELSE LET secAgo == SecAgo(lpu.iso, t)
         IN  IF ~alive
             THEN [d EXCEPT !.priceBadgeClass = "bg-red-900/60 text-red-300",
                            !.priceDotClass = "bg-red-400",
                            !.priceTxt = [kind |-> "hilo caido", sec |-> secAgo]]
             ELSE IF Less(secAgo, FreshLimit)
             THEN [d EXCEPT !.priceBadgeClass = "bg-emerald-900/60 text-emerald-300",
                            !.priceDotClass = "bg-emerald-400 pulse-dot",
                            !.priceTxt = [kind |-> "hace", sec |-> secAgo]]
             ELSE IF Less(secAgo, DeadLimit)
             THEN [d EXCEPT !.priceBadgeClass = "bg-yellow-900/60 text-yellow-300",
                            !.priceDotClass = "bg-yellow-400",
                            !.priceTxt = [kind |-> "hace", sec |-> secAgo]]
             ELSE [d EXCEPT !.priceBadgeClass = "bg-red-900/60 text-red-300",
                            !.priceDotClass = "bg-red-400",
                            !.priceTxt = [kind |-> "hace", sec |-> secAgo]]

(***************************************************************************)
(* updateInsights (lines 196-216)                                          *)
(***************************************************************************)
cityRow(c) == [city |-> c.city, trades |-> c.trades, bar |-> winRateBar(c.win_rate)]

hourRow(h) == [hour |-> h.hour, trades |-> h.trades, bar |-> winRateBar(h.win_rate)]

\* list.map(row).join("") || placeholder
RowsOr(list, row(_), placeholder) ==
    IF Len(list) = 0 THEN <<placeholder>> ELSE [i \in 1..Len(list) |-> row(list[i])]

updateInsights(w, data) ==
    IF ~Has(data, "insights")
    THEN Set(w, "insightsHidden", TRUE)
    ELSE LET ins == data.insights
             w1 == Set(w, "insightsHidden", FALSE)
             w2 == Set(w1, "insightsTrades",
                       <<[pct |-> PctFixed0(ins.overall_win_rate),
                          trades |-> ins.total_trades]>>)
         IN  IF ~Has(ins, "by_city") THEN Throw(w2)
             ELSE LET w3 == Set(w2, "insightsCity",
                                RowsOr(ins.by_city, cityRow, [none |-> "ciudad"]))
                  IN  IF ~Has(ins, "by_hour") THEN Throw(w3)
                      ELSE Set(w3, "insightsHour",
                               RowsOr(ins.by_hour, hourRow, [none |-> "hora"]))

(***************************************************************************)
(* updateUI (lines 57-170), statement by statement: w is what the call     *)
(* reads and writes: [dom, chart, lastPriceUpdateISO, priceThreadAlive,    *)
(* threw]; a dereference of an absent field throws and ends the call.      *)
(***************************************************************************)
\* renderStatus with both buttons toggled by the same condition
renderStatus_SameToggle(w, data) ==
    LET running == data.bot_status = "running"
    IN  [w EXCEPT
          !.dom.badgeClass = IF running THEN "bg-emerald-900/50 text-emerald-300"
                             ELSE "bg-red-900/50 text-red-300",
          !.dom.dotClass = IF running THEN "bg-emerald-400 pulse-dot" ELSE "bg-red-400",
          !.dom.statusText = IF running THEN "Corriendo" ELSE "Detenido",
          !.dom.btnStartHidden = running,
          !.dom.btnStopHidden = running]

\* lines 59-68
renderStatus(w, data) ==
    LET running == data.bot_status = "running"
    IN  [w EXCEPT
          !.dom.badgeClass = IF running THEN "bg-emerald-900/50 text-emerald-300"
                             ELSE "bg-red-900/50 text-red-300",
          !.dom.dotClass = IF running THEN "bg-emerald-400 pulse-dot" ELSE "bg-red-400",
          !.dom.statusText = IF running THEN "Corriendo" ELSE "Detenido",
          !.dom.btnStartHidden = running,
          !.dom.btnStopHidden = ~running]

\* "$" + data[f].toFixed(2) into element el
setMoney(w, data, f, el) ==
    IF ~Has(data, f) THEN Throw(w) ELSE Set(w, el, <<ToFixed2(data[f])>>)

\* sign + amount, then the colour class (lines 74-76, 78-80)
setSigned(w, data, f, el, cls) ==
    IF ~Has(data, f) THEN Throw(w)
    ELSE Set(Set(w, el, <<[sign |-> pnlSign(data[f]), val |-> ToFixed2(data[f])]>>),
             cls, pnlColor(data[f]))

\* lines 71-80
renderMetrics(w, data) ==
    LET w1 == setMoney(w, data, "capital_total", "mCapital")
        w2 == Then(w1, LAMBDA v : setMoney(v, data, "capital_disponible", "mDisponible"))
        w3 == Then(w2, LAMBDA v : setSigned(v, data, "pnl", "mPnl", "mPnlClass"))
    IN  Then(w3, LAMBDA v : setSigned(v, data, "roi", "mRoi", "mRoiClass"))

\* a count suffix is shown only when the count is truthy
Suffix(data, f) == IF Has(data, f) /\ data[f] # 0 THEN data[f] ELSE 0

\* lines 82-85
renderCounts(w, data) ==
    Set(Set(w, "mWl", <<[won |-> data.won, lost |-> data.lost,
                         sl |-> Suffix(data, "stopped"), p |-> Suffix(data, "partial")]>>),
        "mScans", <<data.scan_count>>)

\* syncSlider without the focus check
syncSlider_IgnoresFocus(w, data, focus) ==
    IF Has(data, "stop_loss_ratio")
    THEN Set(Set(w, "sliderValue", data.stop_loss_ratio),
             "sliderLabel", <<ToFixed2(data.stop_loss_ratio)>>)
    ELSE w

\* lines 87-91
syncSlider(w, data, focus) ==
    IF Has(data, "stop_loss_ratio") /\ focus # "slider"
    THEN Set(Set(w, "sliderValue", data.stop_loss_ratio),
             "sliderLabel", <<ToFixed2(data.stop_loss_ratio)>>)
    ELSE w

\* lines 94-96
renderPrice(w, data, t) ==
    LET lpu == IF Truthy(data, "last_price_update")
               THEN [kind |-> "iso", iso |-> data.last_price_update]
               ELSE [kind |-> "null"]
        alive == IF Has(data, "price_thread_alive") THEN data.price_thread_alive ELSE TRUE
    IN  [w EXCEPT !.lastPriceUpdateISO = lpu,
                  !.priceThreadAlive = alive,
                  !.dom = updatePriceBadge(w.dom, lpu, alive, t)]

\* obj[f] || default, for texts and arrays: the empty text is falsy; the empty
\* array is truthy and is the default the script gives an array
Field(obj, f, default) == IF Truthy(obj, f) THEN obj[f] ELSE default

\* renderChart without the default for an absent capital_history
renderChart_NoDefault(w, data) ==
    IF ~Has(data, "capital_history") THEN Throw(w)
    ELSE LET hist == data.capital_history
         IN  [w EXCEPT !.chart = [labels |-> [i \in 1..Len(hist) |-> formatTime(hist[i], "time")],
                                  data |-> [i \in 1..Len(hist) |-> hist[i].capital]]]

\* lines 102-105
renderChart(w, data) ==
    LET hist == Field(data, "capital_history", <<>>)
    IN  [w EXCEPT !.chart = [labels |-> [i \in 1..Len(hist) |-> formatTime(hist[i], "time")],
                             data |-> [i \in 1..Len(hist) |-> hist[i].capital]]]

PriceCell(r, f) == IF Has(r, f) THEN <<CentsFixed1(r[f])>> ELSE <<"NaN">>

openRowThrows(p) == ~Has(p, "question") \/ ~Has(p, "allocated") \/ ~Has(p, "pnl")

openRow(p) ==
    [q |-> esc(p.question), entry |-> PriceCell(p, "entry_no"),
     current |-> PriceCell(p, "current_no"), allocated |-> ToFixed2(p.allocated),
     pnlClass |-> pnlColor(p.pnl), pnl |-> [sign |-> pnlSign(p.pnl), val |-> ToFixed2(p.pnl)]]

oppRowThrows(o) == ~Has(o, "question") \/ ~Has(o, "volume") \/ ~Has(o, "profit_cents")

oppRow(o) ==
    [q |-> esc(o.question), no |-> PriceCell(o, "no_price"), yes |-> PriceCell(o, "yes_price"),
     volume |-> o.volume, profit |-> o.profit_cents]

closedRowThrows(c) == ~Has(c, "question") \/ ~Has(c, "allocated") \/ ~Has(c, "pnl")

statusColor(status) ==
    IF status = "WON" THEN "text-emerald-400"
    ELSE IF status = "PARTIAL" THEN "text-cyan-400"
    ELSE IF status = "STOPPED" THEN "text-yellow-400" ELSE "text-red-400"

closedRow(c) ==
    [q |-> esc(c.question), entry |-> PriceCell(c, "entry_no"),
     allocated |-> ToFixed2(c.allocated), pnlClass |-> pnlColor(c.pnl),
     pnl |-> [sign |-> pnlSign(c.pnl), val |-> ToFixed2(c.pnl)],
     statusClass |-> statusColor(c.status), status |-> c.status,
     res |-> esc(Field(c, "resolution", <<"-">>)), time |-> formatTime(c, "close_time")]

\* one listing: lines 108-124, 127-143, 146-169
renderTable(w, data, f, table, placeholder, rowThrows(_), row(_)) ==
    LET list == Field(data, f, <<>>)
    IN  IF Len(list) = 0
        THEN Set(Set(w, table, <<>>), placeholder, FALSE)
        ELSE LET w1 == Set(w, placeholder, TRUE)
             IN  IF \E i \in 1..Len(list) : rowThrows(list[i])
                 THEN Throw(w1)
                 ELSE Set(w1, table, [i \in 1..Len(list) |-> row(list[i])])

\* renderOpen that leaves the old rows in place when the listing is empty
renderOpen_KeepsOldRows(w, data) ==
    IF Len(Field(data, "open_positions", <<>>)) = 0
    THEN Set(w, "noOpenHidden", FALSE)
    ELSE renderTable(w, data, "open_positions", "tableOpen", "noOpenHidden",
                     openRowThrows, openRow)

renderOpen(w, data) ==
    renderTable(w, data, "open_positions", "tableOpen", "noOpenHidden", openRowThrows, openRow)

renderOpps(w, data) ==
    renderTable(w, data, "last_opportunities", "tableOpps", "noOppsHidden", oppRowThrows, oppRow)

renderClosed(w, data) ==
    renderTable(w, data, "closed_positions", "tableClosed", "noClosedHidden",
                closedRowThrows, closedRow)

updateUI(w, data, focus, t) ==
    LET w1 == renderStatus(w, data)
        w2 == renderMetrics(w1, data)
        w3 == Then(w2, LAMBDA v : renderCounts(v, data))
        w4 == Then(w3, LAMBDA v : syncSlider(v, data, focus))
        w5 == Then(w4, LAMBDA v : renderPrice(v, data, t))
        w6 == Then(w5, LAMBDA v : updateInsights(v, data))
        w7 == Then(w6, LAMBDA v : renderChart(v, data))
        w8 == Then(w7, LAMBDA v : renderOpen(v, data))
        w9 == Then(w8, LAMBDA v : renderOpps(v, data))
    IN  Then(w9, LAMBDA v : renderClosed(v, data))

(***************************************************************************)
(* Inputs: what /api/status may answer                                     *)
(***************************************************************************)
Iso(ms) == [valid |-> TRUE, ms |-> ms]

BadIso == [valid |-> FALSE, ms |-> 0]

Pos1 == [question |-> <<"a", "<", "b">>, entry_no |-> 915, current_no |-> 930,
         allocated |-> 2500, pnl |-> 41]

Pos2 == [question |-> <<"c", "&">>, entry_no |-> 880, current_no |-> 700,
         allocated |-> 1000, pnl |-> -205]

\* a record of the wrong shape: no question text
PosBad == [entry_no |-> 915, current_no |-> 930, allocated |-> 2500, pnl |-> 41]

Opp1 == [question |-> <<"d", ">">>, no_price |-> 950, yes_price |-> 50,
         volume |-> 12000, profit_cents |-> 50]

Closed1 == [question |-> <<"e">>, entry_no |-> 900, allocated |-> 2000, pnl |-> 222,
            status |-> "WON", resolution |-> <<"N", "O">>, close_time |-> Iso(3660000)]

\* a closed trade with neither resolution nor close time
Closed2 == [question |-> <<"f">>, entry_no |-> 940, allocated |-> 1500, pnl |-> -1500,
            status |-> "LOST"]

\* a closed trade whose resolution is the empty text
Closed3 == [question |-> <<"g">>, entry_no |-> 910, allocated |-> 500, pnl |-> 0,
            status |-> "PARTIAL", resolution |-> <<>>, close_time |-> BadIso]

Insights1 == [overall_win_rate |-> 575, total_trades |-> 7,
              by_city |-> <<[city |-> "Madrid", trades |-> 7, win_rate |-> 285]>>,
              by_hour |-> <<>>]

Hist1 == <<[time |-> Iso(60000), capital |-> 100000], [capital |-> 100500]>>

\* the fields the renderer requires, apart from bot_status and scan_count,
\* which the backend's state supplies
Core == [capital_total |-> 100000, capital_disponible |-> 40000, pnl |-> 5000, roi |-> 500,
         won |-> 3, lost |-> 1, stopped |-> 0]

\* every optional field present
Full == Core @@ [partial |-> 2, stop_loss_ratio |-> 80, last_price_update |-> Iso(-59500),
                 price_thread_alive |-> TRUE, insights |-> Insights1,
                 capital_history |-> Hist1, open_positions |-> <<Pos1, Pos2>>,
                 last_opportunities |-> <<Opp1>>, closed_positions |-> <<Closed1, Closed2>>]

\* a loss, a stopped count, one open position, a dead price thread
Loss == [Core EXCEPT !.pnl = -250, !.roi = -25, !.stopped = 1]
          @@ [stop_loss_ratio |-> 65, last_price_update |-> Iso(-500),
              price_thread_alive |-> FALSE, open_positions |-> <<Pos2>>]

\* answers that break the documented shape: a required metric is missing; an
\* open position has no question text
NoCapital == [f \in DOMAIN Core \ {"capital_total"} |-> Core[f]]

NoPnl == [f \in DOMAIN Core \ {"pnl"} |-> Core[f]]

BadRow == Core @@ [open_positions |-> <<PosBad>>]

Templates == {Full, Core, Loss, NoCapital, BadRow}

SliderValues == {50, 80}

(***************************************************************************)
(* State after the script has run once (lines 1-33, 243-244, 278-282)      *)
(***************************************************************************)
\* The markup is not part of the script: texts start empty, the saved
\* indicator and the placeholders start hidden, and either button may start
\* hidden.
InitDom(startHidden, stopHidden) ==
    [badgeClass |-> "", dotClass |-> "", statusText |-> "",
     btnStartHidden |-> startHidden, btnStopHidden |-> stopHidden,
     mCapital |-> <<>>, mDisponible |-> <<>>, mPnl |-> <<>>, mPnlClass |-> "",
     mRoi |-> <<>>, mRoiClass |-> "", mWl |-> <<>>, mScans |-> <<>>,
     sliderValue |-> 50, sliderLabel |-> <<>>,
     priceBadgeClass |-> "", priceDotClass |-> "", priceTxt |-> [kind |-> ""],
     insightsHidden |-> TRUE, insightsTrades |-> <<>>, insightsCity |-> <<>>,
     insightsHour |-> <<>>,
     tableOpen |-> <<>>, noOpenHidden |-> TRUE, tableOpps |-> <<>>, noOppsHidden |-> TRUE,
     tableClosed |-> <<>>, noClosedHidden |-> TRUE,
     cfgSavedHidden |-> TRUE]

\* what a handler did: arrived is what the network delivered to it, end how
\* the handler ended
Ev(op, arrived, end, logged, escaped) ==
    [op |-> op, arrived |-> arrived, end |-> end, logged |-> logged, escaped |-> escaped]

Did(op) == Ev(op, "", "done", FALSE, FALSE)

\* fetch("/api/status"): the backend answers from its state at that moment;
\* the response is delivered later
NewRequest(status, scan) ==
    [status |-> status, scan |-> scan, answered |-> FALSE, overtaken |-> FALSE]

Init ==
    /\ \E sh \in BOOLEAN, ph \in BOOLEAN : dom = InitDom(sh, ph)
    /\ chart = [labels |-> <<>>, data |-> <<>>]
    /\ activeElement = "body"
    /\ lastPriceUpdateISO = [kind |-> "null"]
    /\ priceThreadAlive = FALSE
    /\ now = 0
    /\ nextBadgeTick = BadgeInterval
    /\ nextPoll = PollInterval
    /\ hideTimers = <<>>
    /\ srvStatus \in {"running", "stopped"}
    /\ srvScan = 0
    /\ inflight = <<NewRequest(srvStatus, srvScan)>>
    /\ posts = <<>>
    /\ console = 0
    /\ clicks = 0
    /\ lastEvent = Did("load")

(***************************************************************************)
(* Timers                                                                  *)
(***************************************************************************)
Due == {nextBadgeTick, nextPoll} \cup {hideTimers[k] : k \in 1..Len(hideTimers)}

Min(S) == CHOOSE x \in S : \A y \in S : x <= y

page == <<dom, chart, lastPriceUpdateISO, priceThreadAlive>>

timers == <<nextBadgeTick, nextPoll, hideTimers>>

network == <<inflight, posts>>

backend == <<srvStatus, srvScan>>

\* time passes up to the next timer that is due; a due timer runs first
AdvanceClock(horizon) ==
    /\ \A d \in Due : d > now
    /\ Min(Due) <= horizon
    /\ now' = Min(Due)
    /\ lastEvent' = Did("clock")
    /\ UNCHANGED <<page, activeElement, timers, network, console, clicks, backend>>

\* setInterval(updatePriceBadge, 1000), line 278
BadgeTick ==
    /\ nextBadgeTick <= now
    /\ dom' = updatePriceBadge(dom, lastPriceUpdateISO, priceThreadAlive, now)
    /\ nextBadgeTick' = nextBadgeTick + BadgeInterval
    /\ lastEvent' = Did("updatePriceBadge")
    /\ UNCHANGED <<chart, lastPriceUpdateISO, priceThreadAlive, activeElement, now, nextPoll,
                   hideTimers, network, console, clicks, backend>>

\* a poll timer that stops issuing requests once an error has been logged
PollTick_StopsAfterError ==
    /\ nextPoll <= now
    /\ console = 0
    /\ inflight' = Append(inflight, NewRequest(srvStatus, srvScan))
    /\ nextPoll' = nextPoll + PollInterval
    /\ lastEvent' = Ev("setInterval", "", "fetchStatus", FALSE, FALSE)
    /\ UNCHANGED <<page, activeElement, now, nextBadgeTick, hideTimers, posts, console, clicks,
                   backend>>

\* setInterval(fetchStatus, 5000), line 282: fetchStatus up to its first await
PollTick ==
    /\ nextPoll <= now
    /\ inflight' = Append(inflight, NewRequest(srvStatus, srvScan))
    /\ nextPoll' = nextPoll + PollInterval
    /\ lastEvent' = Ev("setInterval", "", "fetchStatus", FALSE, FALSE)
    /\ UNCHANGED <<page, activeElement, now, nextBadgeTick, hideTimers, posts, console, clicks,
                   backend>>

\* setTimeout(() => saved.classList.add("hidden"), 2000), line 228
HideTimerFires ==
    /\ hideTimers # <<>>
    /\ Head(hideTimers) <= now
    /\ dom' = [dom EXCEPT !.cfgSavedHidden = TRUE]
    /\ hideTimers' = Tail(hideTimers)
    /\ lastEvent' = Did("hide")
    /\ UNCHANGED <<chart, lastPriceUpdateISO, priceThreadAlive, activeElement, now,
                   nextBadgeTick, nextPoll, network, console, clicks, backend>>

(***************************************************************************)
(* fetchStatus after its awaits (lines 175-182), for the request at        *)
(* position i of the requests in flight: the call resumes once with the    *)
(* response (line 175) and, when the response is a success, once more with *)
(* its body (line 177); other handlers run in between                      *)
(***************************************************************************)
Remove(seq, i) == SubSeq(seq, 1, i - 1) \o SubSeq(seq, i + 1, Len(seq))

\* the requests still in flight once the response to request i has been
\* rendered: the ones issued before it have been overtaken
Overtake(seq, i) ==
    Remove([k \in 1..Len(seq) |-> IF k < i THEN [seq[k] EXCEPT !.overtaken = TRUE] ELSE seq[k]], i)

\* the body of the response to a request: the backend's state when it
\* answered, and the rest of the answer
Snapshot(req, template) == [bot_status |-> req.status, scan_count |-> req.scan] @@ template

World == [dom |-> dom, chart |-> chart, lastPriceUpdateISO |-> lastPriceUpdateISO,
          priceThreadAlive |-> priceThreadAlive, threw |-> FALSE]

\* fetch rejects (network failure): the catch logs it
FetchRejected(i) ==
    /\ ~inflight[i].answered
    /\ console' = console + 1
    /\ inflight' = Remove(inflight, i)
    /\ lastEvent' = Ev("fetchStatus", "rejected", "caught", TRUE, FALSE)
    /\ UNCHANGED <<page, activeElement, now, timers, posts, clicks, backend>>

\* a response whose status is not a success: nothing is done with it
FetchNotOk(i) ==
    /\ ~inflight[i].answered
    /\ inflight' = Remove(inflight, i)
    /\ lastEvent' = Ev("fetchStatus", "not ok", "ignored", FALSE, FALSE)
    /\ UNCHANGED <<page, activeElement, now, timers, posts, console, clicks, backend>>

\* a success response: res.ok holds, res.json() is called and awaited
FetchResponds(i) ==
    /\ ~inflight[i].answered
    /\ inflight' = [inflight EXCEPT ![i].answered = TRUE]
    /\ lastEvent' = Ev("fetchStatus", "response", "await", FALSE, FALSE)
    /\ UNCHANGED <<page, activeElement, now, timers, posts, console, clicks, backend>>

\* res.json() rejects (the body is not JSON): the catch logs it
FetchBadJson(i) ==
    /\ inflight[i].answered
    /\ console' = console + 1
    /\ inflight' = Remove(inflight, i)
    /\ lastEvent' = Ev("fetchStatus", "bad json", "caught", TRUE, FALSE)
    /\ UNCHANGED <<page, activeElement, now, timers, posts, clicks, backend>>

\* FetchOk discarding the response to a request that a later one has overtaken
FetchOk_DropsStale(i, template) ==
    LET data == Snapshot(inflight[i], template)
        drop == inflight[i].overtaken
        w == IF drop THEN World ELSE updateUI(World, data, activeElement, now)
    IN  /\ inflight[i].answered
        /\ dom' = w.dom
        /\ chart' = w.chart
        /\ lastPriceUpdateISO' = w.lastPriceUpdateISO
        /\ priceThreadAlive' = w.priceThreadAlive
        /\ console' = IF w.threw THEN console + 1 ELSE console
        /\ inflight' = IF w.threw \/ drop THEN Remove(inflight, i) ELSE Overtake(inflight, i)
        /\ lastEvent' = Ev("fetchStatus", "ok",
                           IF drop THEN "ignored" ELSE IF w.threw THEN "caught" ELSE "rendered",
                           w.threw, FALSE)
                          @@ [data |-> data, focus |-> activeElement,
                              stale |-> inflight[i].overtaken, scansBefore |-> dom.mScans]
        /\ UNCHANGED <<activeElement, now, timers, posts, clicks, backend>>

\* the body parsed to a JSON object: updateUI(data), and the catch when it throws
FetchOk(i, template) ==
    LET data == Snapshot(inflight[i], template)
        w == updateUI(World, data, activeElement, now)
    IN  /\ inflight[i].answered
        /\ dom' = w.dom
        /\ chart' = w.chart
        /\ lastPriceUpdateISO' = w.lastPriceUpdateISO
        /\ priceThreadAlive' = w.priceThreadAlive
        /\ console' = IF w.threw THEN console + 1 ELSE console
        /\ inflight' = IF w.threw THEN Remove(inflight, i) ELSE Overtake(inflight, i)
        /\ lastEvent' = Ev("fetchStatus", "ok", IF w.threw THEN "caught" ELSE "rendered",
                           w.threw, FALSE)
                          @@ [data |-> data, focus |-> activeElement,
                              stale |-> inflight[i].overtaken, scansBefore |-> dom.mScans]
        /\ UNCHANGED <<activeElement, now, timers, posts, clicks, backend>>

StatusArrives(templates) ==
    \E i \in 1..Len(inflight) :
        \/ FetchRejected(i)
        \/ FetchNotOk(i)
        \/ FetchResponds(i)
        \/ FetchBadJson(i)
        \/ \E t \in templates : FetchOk(i, t)

(***************************************************************************)
(* The user: focus and edits of the slider, and the three buttons          *)
(***************************************************************************)
UserFocus ==
    /\ activeElement = "body"
    /\ activeElement' = "slider"
    /\ lastEvent' = Did("focus")
    /\ UNCHANGED <<page, now, timers, network, console, clicks, backend>>

UserBlur ==
    /\ activeElement = "slider"
    /\ activeElement' = "body"
    /\ lastEvent' = Did("blur")
    /\ UNCHANGED <<page, now, timers, network, console, clicks, backend>>

\* the user moves the slider, which holds the focus while it is moved
UserEdit ==
    \E v \in SliderValues :
        /\ activeElement = "slider"
        /\ v # dom.sliderValue
        /\ dom' = [dom EXCEPT !.sliderValue = v]
        /\ lastEvent' = Did("edit")
        /\ UNCHANGED <<chart, lastPriceUpdateISO, priceThreadAlive, activeElement, now, timers,
                       network, console, clicks, backend>>

\* startBot / stopBot up to the await (lines 233, 238)
ClickBot(kind) ==
    /\ clicks < MaxClicks
    /\ clicks' = clicks + 1
    /\ posts' = Append(posts, [kind |-> kind])
    /\ lastEvent' = Ev(kind, "", "await", FALSE, FALSE)
    /\ UNCHANGED <<page, activeElement, now, timers, inflight, console, backend>>

startBot == ClickBot("startBot")

stopBot == ClickBot("stopBot")

\* saveConfig up to the await (lines 219-224)
saveConfig ==
    /\ clicks < MaxSaves
    /\ clicks' = clicks + 1
    /\ posts' = Append(posts, [kind |-> "saveConfig", ratio |-> dom.sliderValue])
    /\ lastEvent' = Ev("saveConfig", "", "await", FALSE, FALSE)
    /\ UNCHANGED <<page, activeElement, now, timers, inflight, console, backend>>

(***************************************************************************)
(* The handlers after their await                                          *)
(***************************************************************************)
\* the POST rejects: the await throws, the handler ends there, nobody catches
PostRejected(i) ==
    /\ posts' = Remove(posts, i)
    /\ lastEvent' = Ev(posts[i].kind, "rejected", "thrown", FALSE, TRUE)
    /\ UNCHANGED <<page, activeElement, now, timers, inflight, console, clicks, backend>>

\* startBot / stopBot resumed with a response of any status: fetchStatus()
\* (lines 234, 239); the backend has switched the bot when it answered ok
BotResumes(i, ok) ==
    LET status == IF ~ok THEN srvStatus
                  ELSE IF posts[i].kind = "startBot" THEN "running" ELSE "stopped"
    IN  /\ posts[i].kind \in {"startBot", "stopBot"}
        /\ srvStatus' = status
        /\ posts' = Remove(posts, i)
        /\ inflight' = Append(inflight, NewRequest(status, srvScan))
        /\ lastEvent' = Ev(posts[i].kind, IF ok THEN "ok" ELSE "not ok", "fetchStatus",
                           FALSE, FALSE)
        /\ UNCHANGED <<page, activeElement, now, timers, console, clicks, srvScan>>

\* saveConfig resumed (lines 225-229)
SaveResumes(i, ok) ==
    /\ posts' = Remove(posts, i)
    /\ dom' = IF ok THEN [dom EXCEPT !.cfgSavedHidden = FALSE] ELSE dom
    /\ hideTimers' = IF ok THEN Append(hideTimers, now + SavedDelay) ELSE hideTimers
    /\ lastEvent' = Ev("saveConfig", IF ok THEN "ok" ELSE "not ok",
                     IF ok THEN "saved" ELSE "done", FALSE, FALSE)
    /\ UNCHANGED <<chart, lastPriceUpdateISO, priceThreadAlive, activeElement, now,
                   nextBadgeTick, nextPoll, inflight, console, clicks, backend>>

\* the response to a startBot / stopBot POST
BotArrives ==
    \E i \in 1..Len(posts) :
        /\ posts[i].kind \in {"startBot", "stopBot"}
        /\ \/ PostRejected(i)
           \/ \E ok \in BOOLEAN : BotResumes(i, ok)

\* the response to the saveConfig POST
SaveArrives ==
    \E i \in 1..Len(posts) :
        /\ posts[i].kind = "saveConfig"
        /\ \/ PostRejected(i)
           \/ \E ok \in BOOLEAN : SaveResumes(i, ok)

\* the backend's bot completes a scan
ServerScans ==
    /\ srvScan < MaxScan
    /\ srvScan' = srvScan + 1
    /\ lastEvent' = Did("scan")
    /\ UNCHANGED <<page, activeElement, now, timers, network, console, clicks,
                   srvStatus>>

Next ==
    \/ AdvanceClock(MaxNow)
    \/ BadgeTick
    \/ PollTick
    \/ HideTimerFires
    \/ StatusArrives(Templates)
    \/ UserFocus
    \/ UserBlur
    \/ UserEdit
    \/ startBot
    \/ stopBot
    \/ saveConfig
    \/ BotArrives
    \/ SaveArrives
    \/ ServerScans

Spec == Init /\ [][Next]_vars

(***************************************************************************)
(* Scenarios: the program with the environment restricted to the events    *)
(* one concern needs                                                       *)
(***************************************************************************)
PollTemplates == {Core, NoCapital}

\* polling and bot control: no slider, no saveConfig
PollNext ==
    \/ AdvanceClock(MaxNow)
    \/ BadgeTick
    \/ PollTick
    \/ StatusArrives(PollTemplates)
    \/ startBot
    \/ stopBot
    \/ BotArrives
    \/ ServerScans

PollSpec == Init /\ [][PollNext]_vars

\* polling alone, over a longer time, with the event loop fair: time passes and
\* a due timer runs; a request may stay unanswered (no timeout is set)
FairNext ==
    \/ AdvanceClock(MaxNowFair)
    \/ BadgeTick
    \/ PollTick
    \/ StatusArrives(PollTemplates)

FairPollSpec ==
    /\ Init
    /\ [][FairNext]_vars
    /\ WF_vars(AdvanceClock(MaxNowFair))
    /\ WF_vars(BadgeTick)
    /\ WF_vars(PollTick)

SliderTemplates == {Core, Core @@ [stop_loss_ratio |-> 80], Core @@ [stop_loss_ratio |-> 65]}

\* polls against a user who focuses, moves and leaves the slider
SliderNext ==
    \/ AdvanceClock(MaxNow)
    \/ BadgeTick
    \/ PollTick
    \/ StatusArrives(SliderTemplates)
    \/ UserFocus
    \/ UserBlur
    \/ UserEdit

SliderSpec == Init /\ [][SliderNext]_vars

PriceStamps == {Iso(-500), Iso(-57500), Iso(-59500), Iso(-118500), Iso(-130000), BadIso}

PriceTemplates ==
    {Core, Core @@ [price_thread_alive |-> FALSE]}
        \cup {Core @@ [last_price_update |-> ts] : ts \in PriceStamps}
        \cup {Core @@ [last_price_update |-> ts, price_thread_alive |-> a] :
                ts \in PriceStamps, a \in BOOLEAN}

\* polls and badge ticks over answers that differ in the price feed's fields
BadgeNext ==
    \/ AdvanceClock(MaxNow)
    \/ BadgeTick
    \/ PollTick
    \/ StatusArrives(PriceTemplates)

BadgeSpec == Init /\ [][BadgeNext]_vars

\* the user saves the configuration; the status requests stay unanswered
SaveNext ==
    \/ AdvanceClock(MaxNow)
    \/ BadgeTick
    \/ PollTick
    \/ HideTimerFires
    \/ UserFocus
    \/ UserBlur
    \/ UserEdit
    \/ saveConfig
    \/ SaveArrives

SaveSpec == Init /\ [][SaveNext]_vars

(***************************************************************************)
(* The renderer alone: one answer in flight, drawn from every combination  *)
(* of the optional fields, rendered over an empty page or over a page that *)
(* shows the answer Full                                                   *)
(***************************************************************************)
None == [f \in {} |-> f]

Opt(f, values) == {None} \cup {[g \in {f} |-> v] : v \in values}

Listing(f, rows) == {None, [g \in {f} |-> <<>>], [g \in {f} |-> rows]}

WellFormed ==
    {Core @@ a @@ b @@ c @@ d @@ e @@ h @@ o @@ p @@ q :
        a \in Opt("partial", {2}),
        b \in Opt("stop_loss_ratio", {65}),
        c \in Opt("last_price_update", {Iso(-500)}),
        d \in Opt("price_thread_alive", {FALSE}),
        e \in Opt("insights", {Insights1}),
        h \in Listing("capital_history", Hist1),
        o \in Listing("open_positions", <<Pos2>>),
        p \in Listing("last_opportunities", <<Opp1>>),
        q \in Listing("closed_positions", <<Closed2, Closed1, Closed3>>)}

Malformed == {NoCapital, NoPnl, BadRow, Core @@ [insights |-> [total_trades |-> 0,
                                                               overall_win_rate |-> 0]]}

RenderTemplates == WellFormed \cup Malformed

Rendered(d, template, status) ==
    updateUI([dom |-> d, chart |-> [labels |-> <<>>, data |-> <<>>],
              lastPriceUpdateISO |-> [kind |-> "null"], priceThreadAlive |-> FALSE,
              threw |-> FALSE],
             Snapshot(NewRequest(status, 0), template), "body", 0)

RenderInit ==
    /\ \E full \in BOOLEAN :
         LET w == Rendered(InitDom(FALSE, FALSE), Full, "running")
         IN  /\ dom = IF full THEN w.dom ELSE InitDom(FALSE, FALSE)
             /\ chart = IF full THEN w.chart ELSE [labels |-> <<>>, data |-> <<>>]
             /\ lastPriceUpdateISO = IF full THEN w.lastPriceUpdateISO ELSE [kind |-> "null"]
             /\ priceThreadAlive = IF full THEN w.priceThreadAlive ELSE FALSE
    /\ activeElement \in {"body", "slider"}
    /\ now = 0
    /\ nextBadgeTick = BadgeInterval
    /\ nextPoll = PollInterval
    /\ hideTimers = <<>>
    /\ srvStatus \in {"running", "stopped"}
    /\ srvScan = 1
    /\ inflight = <<NewRequest(srvStatus, srvScan)>>
    /\ posts = <<>>
    /\ console = 0
    /\ clicks = 0
    /\ lastEvent = Did("load")

RenderNext == StatusArrives(RenderTemplates)

RenderSpec == RenderInit /\ [][RenderNext]_vars

(***************************************************************************)
(* Properties                                                              *)
(***************************************************************************)
\* the handler that ran last was fetchStatus resumed with a success response
\* whose body parsed: updateUI was called with lastEvent.data
IsFetchOk(e) == e.op = "fetchStatus" /\ e.arrived = "ok"

IsRendered(e) == IsFetchOk(e) /\ e.end = "rendered"

\* the answer has the documented shape: the required metrics, and well-formed
\* rows and insights where it has any
IsWellFormed(data) ==
    /\ DOMAIN Core \subseteq DOMAIN data
    /\ \A r \in {Field(data, "open_positions", <<>>)[i] :
                   i \in 1..Len(Field(data, "open_positions", <<>>))} : ~openRowThrows(r)
    /\ \A r \in {Field(data, "last_opportunities", <<>>)[i] :
                   i \in 1..Len(Field(data, "last_opportunities", <<>>))} : ~oppRowThrows(r)
    /\ \A r \in {Field(data, "closed_positions", <<>>)[i] :
                   i \in 1..Len(Field(data, "closed_positions", <<>>))} : ~closedRowThrows(r)
    /\ Has(data, "insights") => {"by_city", "by_hour"} \subseteq DOMAIN data.insights

\* C1: an updateUI call that runs while the slider holds the focus, or with a
\* snapshot that carries no stop_loss_ratio, leaves the slider's value and its
\* label as they were; any other call sets both from the snapshot's
\* stop_loss_ratio.
C1_SliderGuardedByFocus ==
    [][IsRendered(lastEvent') =>
         IF activeElement = "slider" \/ ~Has(lastEvent'.data, "stop_loss_ratio")
         THEN /\ dom'.sliderValue = dom.sliderValue
              /\ dom'.sliderLabel = dom.sliderLabel
         ELSE /\ dom'.sliderValue = lastEvent'.data.stop_loss_ratio
              /\ dom'.sliderLabel = <<ToFixed2(lastEvent'.data.stop_loss_ratio)>>]_vars

\* a poll has just rendered a snapshot carrying a ratio while the user held
\* the slider at another value, which the slider still shows
C1_Witness ==
    /\ IsRendered(lastEvent)
    /\ lastEvent.focus = "slider"
    /\ Has(lastEvent.data, "stop_loss_ratio")
    /\ dom.sliderValue # lastEvent.data.stop_loss_ratio
    /\ dom.mScans = <<lastEvent.data.scan_count>>

\* C2: a fetchStatus call that fails (the request rejects, or an exception is
\* raised while the response is handled) leaves everything displayed as it
\* was, logs the failure, and lets no exception escape.
C2_FailedFetchLeavesUI ==
    [][(lastEvent'.op = "fetchStatus" /\ lastEvent'.end = "caught") =>
         /\ dom' = dom
         /\ chart' = chart
         /\ console' = console + 1
         /\ ~lastEvent'.escaped]_vars

\* C5: once updateUI has run, exactly one of the two buttons is visible: the
\* stop button, with the label Corriendo, iff the bot_status rendered last is
\* "running"; otherwise the start button, with the label Detenido.
C5_OneButtonVisible ==
    /\ IsFetchOk(lastEvent) =>
         LET running == lastEvent.data.bot_status = "running"
         IN  /\ dom.btnStopHidden = ~running
             /\ dom.btnStartHidden = running
             /\ dom.statusText = IF running THEN "Corriendo" ELSE "Detenido"
    /\ dom.statusText # "" =>
         /\ dom.btnStartHidden # dom.btnStopHidden
         /\ dom.btnStopHidden <=> dom.statusText = "Detenido"
         /\ dom.btnStartHidden <=> dom.statusText = "Corriendo"

\* after a button was used, a snapshot of the running bot has been rendered:
\* the stop button is shown and the start button hidden
C5_Witness ==
    /\ IsFetchOk(lastEvent)
    /\ lastEvent.data.bot_status = "running"
    /\ clicks > 0
    /\ srvStatus = "running"
    /\ ~dom.btnStopHidden
    /\ dom.btnStartHidden

IsBot(e) == e.op \in {"startBot", "stopBot"}

\* C8: whenever the POST of startBot / stopBot completes, whatever its
\* outcome (answered with any status, or rejected), the handler issues a
\* status request at once, without waiting for the poll timer.
C8_RefreshWhateverOutcome ==
    [][(IsBot(lastEvent') /\ lastEvent'.arrived # "") =>
         Len(inflight') = Len(inflight) + 1]_vars

\* C10: every success response with a well-formed snapshot is rendered when
\* it arrives, also when the response to a later request was rendered before
\* it, so that the page can end up showing the older snapshot.
C10_RenderedInArrivalOrder ==
    (IsFetchOk(lastEvent) /\ IsWellFormed(lastEvent.data)) =>
        /\ lastEvent.end = "rendered"
        /\ dom.mScans = <<lastEvent.data.scan_count>>
        /\ dom.statusText = IF lastEvent.data.bot_status = "running"
                            THEN "Corriendo" ELSE "Detenido"

\* the response to the earlier of two requests has been rendered after the
\* response to the later one: the page showed a newer scan count before
C10_Witness ==
    /\ IsRendered(lastEvent)
    /\ lastEvent.stale
    /\ lastEvent.scansBefore # <<>>
    /\ lastEvent.scansBefore[1] > lastEvent.data.scan_count
    /\ dom.mScans = <<lastEvent.data.scan_count>>

PollTimes == {k * PollInterval : k \in 1..(MaxNowFair \div PollInterval)}

\* C3: whatever the outcomes of the fetches so far, the poll timer that is
\* due at t issues a status request at t, and a success response with a
\* well-formed snapshot is rendered, also after failures.
C3_PollKeepsRunning ==
    /\ \A t \in PollTimes :
         [](nextPoll = t =>
              <>(/\ lastEvent.op = "setInterval"
                 /\ now = t
                 /\ nextPoll = t + PollInterval
                 /\ Len(inflight) > 0))
    /\ []((IsFetchOk(lastEvent) /\ IsWellFormed(lastEvent.data)) =>
            /\ lastEvent.end = "rendered"
            /\ dom.mScans = <<lastEvent.data.scan_count>>
            /\ dom.mCapital = <<ToFixed2(lastEvent.data.capital_total)>>)

\* two failures have been logged, the polls at 5 s and 10 s have fired, and
\* the response that arrived last has been rendered
C3_Witness ==
    /\ console >= 2
    /\ nextPoll > 2 * PollInterval
    /\ inflight = <<>>
    /\ IsRendered(lastEvent)
    /\ dom.mScans = <<lastEvent.data.scan_count>>

BadgeUpdated(e) == e.op = "updatePriceBadge" \/ IsRendered(e)

BadgeState(d) ==
    IF d.priceTxt.kind = "sin datos" THEN "no data"
    ELSE IF d.priceBadgeClass = "bg-emerald-900/60 text-emerald-300" THEN "fresh"
    ELSE IF d.priceBadgeClass = "bg-yellow-900/60 text-yellow-300" THEN "stale"
    ELSE IF d.priceBadgeClass = "bg-red-900/60 text-red-300" THEN "dead"
    ELSE "unset"

\* the badge the claim gives for ms milliseconds elapsed
ByElapsed(ms, alive) ==
    IF ~alive \/ ms >= DeadLimit * 1000 THEN "dead"
    ELSE IF ms < FreshLimit * 1000 THEN "fresh" ELSE "stale"

\* C4 as stated, over one updatePriceBadge call: with no timestamp recorded
\* before or by the call the badge is "no data"; once one has been recorded
\* the badge is decided by the time elapsed since the last one recorded and
\* by priceThreadAlive, with the limits at 60 s and 120 s.
C4_BadgeByElapsedOnceRecorded ==
    [][BadgeUpdated(lastEvent') =>
         LET rec == lastPriceUpdateISO'
             old == lastPriceUpdateISO
         IN  IF rec.kind = "iso"
             THEN rec.iso.valid =>
                    BadgeState(dom') = ByElapsed(now' - rec.iso.ms, priceThreadAlive')
             ELSE IF old.kind = "iso"
             THEN old.iso.valid =>
                    BadgeState(dom') = ByElapsed(now' - old.iso.ms, priceThreadAlive')
             ELSE BadgeState(dom') = "no data"]_vars

\* the badge the code gives: the limits apply to the seconds rounded to the
\* nearest whole number, halves up
ByRounded(ms, alive) ==
    IF ~alive \/ ms + 500 >= DeadLimit * 1000 THEN "dead"
    ELSE IF ms + 500 < FreshLimit * 1000 THEN "fresh" ELSE "stale"

\* C4 amended: after every updatePriceBadge call the badge is "no data" when
\* the snapshot rendered last carried no timestamp (or none was rendered
\* yet); otherwise "dead" when the thread is not alive, the timestamp does
\* not parse, or the rounded seconds are 120 or more; "fresh" when they are
\* below 60; "stale" in between.  The cached pair is that of the snapshot
\* rendered last, priceThreadAlive defaulting to true.
C4_BadgeByRoundedSeconds ==
    /\ BadgeUpdated(lastEvent) =>
         BadgeState(dom) =
            IF lastPriceUpdateISO.kind = "null" THEN "no data"
            ELSE IF ~lastPriceUpdateISO.iso.valid THEN "dead"
            ELSE ByRounded(now - lastPriceUpdateISO.iso.ms, priceThreadAlive)
    /\ IsRendered(lastEvent) =>
         /\ lastPriceUpdateISO =
              IF Has(lastEvent.data, "last_price_update")
              THEN [kind |-> "iso", iso |-> lastEvent.data.last_price_update]
              ELSE [kind |-> "null"]
         /\ priceThreadAlive = IF Has(lastEvent.data, "price_thread_alive")
                               THEN lastEvent.data.price_thread_alive ELSE TRUE

\* the badge has just been updated 59.5 s after the price update, with the
\* thread alive, and shows "stale"
C4_Witness ==
    /\ BadgeUpdated(lastEvent)
    /\ lastPriceUpdateISO.kind = "iso"
    /\ lastPriceUpdateISO.iso.valid
    /\ priceThreadAlive
    /\ now - lastPriceUpdateISO.iso.ms = 59500
    /\ BadgeState(dom) = "stale"

Rows(data, f) == Field(data, f, <<>>)

\* C6: after updateUI has rendered a snapshot, each listing whose array is
\* missing or empty has no rows and shows its placeholder; each listing whose
\* array is not empty hides its placeholder and holds one row per element of
\* the array, in order, and nothing of the rows shown before.
C6_ListingsReplaced ==
    IsRendered(lastEvent) =>
        LET data == lastEvent.data
            Shows(f, table, placeholder) ==
                IF Len(Rows(data, f)) = 0
                THEN dom[table] = <<>> /\ ~dom[placeholder]
                ELSE /\ dom[placeholder]
                     /\ Len(dom[table]) = Len(Rows(data, f))
                     /\ \A i \in 1..Len(Rows(data, f)) :
                          dom[table][i].q = esc(Rows(data, f)[i].question)
        IN  /\ Shows("open_positions", "tableOpen", "noOpenHidden")
            /\ Shows("last_opportunities", "tableOpps", "noOppsHidden")
            /\ Shows("closed_positions", "tableClosed", "noClosedHidden")

\* over a page that showed two open positions and two closed trades, a
\* snapshot with one open position and no closed_positions has been rendered
C6_Witness ==
    /\ IsRendered(lastEvent)
    /\ lastEvent.scansBefore = <<0>>
    /\ Rows(lastEvent.data, "open_positions") = <<Pos2>>
    /\ Len(dom.tableOpen) = 1
    /\ dom.noOpenHidden
    /\ ~Has(lastEvent.data, "closed_positions")
    /\ dom.tableClosed = <<>>
    /\ ~dom.noClosedHidden

\* C7: updateUI does not throw for a snapshot of the documented shape,
\* whichever optional fields are absent: every region is rendered, and each
\* absent field shows as its default.
C7_AbsentFieldsDefaulted ==
    (IsFetchOk(lastEvent) /\ IsWellFormed(lastEvent.data)) =>
        LET data == lastEvent.data
        IN  /\ lastEvent.end = "rendered"
            /\ ~lastEvent.logged
            /\ dom.mCapital = <<ToFixed2(data.capital_total)>>
            /\ dom.mRoi[1].val = ToFixed2(data.roi)
            /\ dom.mScans = <<data.scan_count>>
            /\ dom.mWl[1].won = data.won
            /\ ~Has(data, "partial") => dom.mWl[1].p = 0
            /\ ~Has(data, "last_price_update") =>
                 lastPriceUpdateISO.kind = "null" /\ dom.priceTxt.kind = "sin datos"
            /\ ~Has(data, "price_thread_alive") => priceThreadAlive
            /\ dom.insightsHidden <=> ~Has(data, "insights")
            /\ ~Has(data, "capital_history") => chart = [labels |-> <<>>, data |-> <<>>]
            /\ Len(chart.labels) = Len(Rows(data, "capital_history"))
            /\ \A i \in 1..Len(Rows(data, "capital_history")) :
                 ~Has(data.capital_history[i], "time") => chart.labels[i].kind = "-"
            /\ ~Has(data, "open_positions") => dom.tableOpen = <<>> /\ ~dom.noOpenHidden
            /\ ~Has(data, "last_opportunities") => dom.tableOpps = <<>> /\ ~dom.noOppsHidden
            /\ ~Has(data, "closed_positions") => dom.tableClosed = <<>> /\ ~dom.noClosedHidden
            /\ Len(dom.tableClosed) = Len(Rows(data, "closed_positions"))
            /\ \A i \in 1..Len(Rows(data, "closed_positions")) :
                 /\ ~Truthy(data.closed_positions[i], "resolution") =>
                      dom.tableClosed[i].res = <<"-">>
                 /\ ~Has(data.closed_positions[i], "close_time") =>
                      dom.tableClosed[i].time.kind = "-"

\* a snapshot with no optional field at all has been rendered
C7_Witness ==
    /\ IsRendered(lastEvent)
    /\ DOMAIN lastEvent.data = DOMAIN Core \cup {"bot_status", "scan_count"}
    /\ dom.insightsHidden
    /\ dom.priceTxt.kind = "sin datos"
    /\ dom.mScans = <<1>>

\* C9: for 2 seconds after a saveConfig whose POST succeeded the saved
\* indicator is visible, however close together the successes are; it is
\* hidden once no success is less than 2 seconds old, and a POST that does
\* not succeed does not show it.  A pending hide timer due at d stands for a
\* success at d - 2000.
C9_SavedShownForTwoSeconds ==
    /\ \A k \in 1..Len(hideTimers) : now < hideTimers[k] => ~dom.cfgSavedHidden
    /\ hideTimers = <<>> => dom.cfgSavedHidden

====
